---- MODULE Spec2Model ----
(***************************************************************************)
(* Model of website/generate.js: the static-site build.                    *)
(*                                                                         *)
(* Strings are sequences of tokens: "/" is one token, a path segment       *)
(* ("a", "index") is one token and an extension (".md", ".mdx") is one     *)
(* token.  split, join, slice and the two regular-expression replacements  *)
(* are computed on these sequences.                                        *)
(*                                                                         *)
(* Objects live in heaps.  navTree is the heap of navigation nodes (node   *)
(* id = position, the root is node 1); dataHeap is the heap of the `data`  *)
(* objects the load tasks create (id = the task that created it).  A       *)
(* node's data field is a reference: 0 for a fresh `{}`, otherwise the id  *)
(* of a data object, because `context.data = data` stores the object, not  *)
(* a copy.                                                                 *)
(***************************************************************************)
EXTENDS Integers, Sequences, FiniteSets, TLC

\* Largest number of content files globby returns.
MaxFiles == 3

\* {concurrency: 6}
Concurrency == 6

\* Content files (relative to config.input) the build may find.
FilePool ==
  { <<"index", ".md">>,
    <<"a", ".md">>,
    <<"a", "/", "index", ".mdx">>,
    <<"a", "/", "b", ".md">>,
    <<"b", ".md">> }

\* config.input.href, config.output.href, config.site.origin
InputHref == <<"file:", "/", "/", "/", "docs", "/">>
OutputHref == <<"file:", "/", "/", "/", "public", "/">>
SiteOrigin == <<"https:", "/", "/", "mdxjs.com">>

Undefined == <<"undefined">>

VARIABLES
  files,      \* the URLs globby found, in enumeration order, with what each module exports
  pc,         \* position of the top-level code
  loadSt,     \* state of each task of the first pAll
  allInfo,    \* result array of the first pAll
  dataHeap,   \* the `data` objects, by id
  navTree,    \* the navigation nodes, by id
  index,      \* `index` of the fold
  partIndex,  \* `partIndex` of the fold
  context,    \* `context` of the fold (a node id)
  sitemap,    \* entries handed to sitemap()
  renderSt,   \* state of each task of the second pAll
  outputs     \* files written below config.output

vars == <<files, pc, loadSt, allInfo, dataHeap, navTree, index, partIndex,
          context, sitemap, renderSt, outputs>>

N == Len(files)

Min(a, b) == IF a < b THEN a ELSE b

----------------------------------------------------------------------------
\* String functions.

\* s.slice(k)
SliceFrom(s, k) == SubSeq(s, k + 1, Len(s))

\* s.replace(/\.mdx?$/, '/')
ReplaceExt(s) ==
  IF Len(s) > 0 /\ s[Len(s)] \in {".md", ".mdx"}
  THEN SubSeq(s, 1, Len(s) - 1) \o <<"/">>
  ELSE s

\* s.replace(/\/index\/$/, '/')
ReplaceIndex(s) ==
  IF Len(s) >= 3 /\ SubSeq(s, Len(s) - 2, Len(s)) = <<"/", "index", "/">>
  THEN SubSeq(s, 1, Len(s) - 3) \o <<"/">>
  ELSE s

\* url.href of new URL(d, config.input)
Href(d) == InputHref \o d

\* const name = url.href.slice(...).replace(...).replace(...)
NameOf(href) == ReplaceIndex(ReplaceExt(SliceFrom(href, Len(InputHref) - 1)))

\* new URL('.' + name + 'index.json', config.output)
JsonUrl(name) == OutputHref \o SliceFrom(name, 1) \o <<"index.json">>

\* new URL('index.html', jsonUrl)
HtmlUrl(jsonUrl) == SubSeq(jsonUrl, 1, Len(jsonUrl) - 1) \o <<"index.html">>

\* new URL('sitemap.xml', config.output)
SitemapUrl == OutputHref \o <<"sitemap.xml">>

\* new URL(name, config.site).href
SiteUrl(name) == SiteOrigin \o name

RECURSIVE Split(_)
\* s.split('/')
Split(s) ==
  IF \A k \in 1..Len(s) : s[k] # "/"
  THEN <<s>>
  ELSE LET k == CHOOSE k \in 1..Len(s) :
                  s[k] = "/" /\ \A j \in 1..(k - 1) : s[j] # "/"
       IN <<SubSeq(s, 1, k - 1)>> \o Split(SubSeq(s, k + 1, Len(s)))

RECURSIVE Join(_)
\* parts.join('/')
Join(parts) ==
  IF Len(parts) = 0 THEN <<>>
  ELSE IF Len(parts) = 1 THEN parts[1]
  ELSE parts[1] \o <<"/">> \o Join(Tail(parts))

\* Faulty variant: the trailing empty part is kept (no .slice(0, -1)).
Parts_NoSlice(name) == Split(name)

\* const parts = name.split('/').slice(0, -1)
Parts(name) == LET sp == Split(name) IN SubSeq(sp, 1, Len(sp) - 1)

\* Faulty variant: parts.slice(0, partIndex), one part short.
PrefixName_Short(parts, pi) == Join(SubSeq(parts, 1, Min(pi, Len(parts)))) \o <<"/">>

\* const name = parts.slice(0, partIndex + 1).join('/') + '/'
PrefixName(parts, pi) == Join(SubSeq(parts, 1, Min(pi + 1, Len(parts)))) \o <<"/">>

----------------------------------------------------------------------------
\* p-all: bounded fan-out.

\* The tasks pAll starts at once: the first `concurrency` of them.
PAllInitial(tasks) ==
  {i \in tasks : Cardinality({j \in tasks : j <= i}) <= Concurrency}

\* The state of every task right after the call of pAll.
PAllStart(tasks, first) ==
  [i \in tasks |-> IF i \in PAllInitial(tasks) THEN first ELSE "idle"]

\* When a task fulfils, pAll starts the next task that has not started.
PAllResume(st, first) ==
  IF \E j \in DOMAIN st : st[j] = "idle"
  THEN LET j == CHOOSE j \in DOMAIN st :
                  st[j] = "idle" /\ \A k \in DOMAIN st : st[k] = "idle" => j <= k
       IN [st EXCEPT ![j] = first]
  ELSE st

\* The result of task i is stored at position i of the result array.
PAllStore(results, i, v) == [results EXCEPT ![i] = v]

\* The promise pAll returned.
PAllSettled(st) ==
  IF \E j \in DOMAIN st : st[j] = "failed" THEN "rejected"
  ELSE IF \A j \in DOMAIN st : st[j] = "done" THEN "fulfilled"
  ELSE "pending"

\* Faulty variant: a rejection is not propagated.
Await_Ignore(settled, here, next) ==
  CASE settled = "fulfilled" -> next
    [] OTHER -> here

\* `await pAll(...)` at the top level: a rejection ends the program, a
\* fulfilment continues with the next statement.
Await(settled, here, next) ==
  CASE settled = "rejected" -> "aborted"
    [] settled = "fulfilled" -> next
    [] OTHER -> here

----------------------------------------------------------------------------
\* Loading.

NoResult == [name |-> <<>>, url |-> <<>>, jsonUrl |-> <<>>, data |-> 0]

\* return {name, url, ghUrl, jsonUrl, data, Content}
LoadResult(i) ==
  LET href == Href(files[i].path)
      name == NameOf(href)
  IN [name |-> name, url |-> href, jsonUrl |-> JsonUrl(name), data |-> i]

\* const {default: Content, info, ...data} = mod; data.meta = {...}
LoadData(i) ==
  [navExclude |-> files[i].navExclude,
   meta |-> [origin |-> Undefined, pathname |-> Undefined]]

\* files.map((url) => async () => {...}): one task per file
LoadTasks(urls) == 1..Len(urls)

FileSeqs ==
  UNION { { s \in [1..n -> FilePool] : \A i, j \in 1..n : s[i] = s[j] => i = j } :
          n \in 0..MaxFiles }

\* The state before the first pAll, for the files globby returned.
Start(found) ==
  /\ files = found
  /\ pc = "start"
  /\ loadSt = <<>>
  /\ allInfo = [i \in 1..Len(found) |-> NoResult]
  /\ dataHeap = <<>>
  /\ navTree = <<>>
  /\ index = -1
  /\ partIndex = 0
  /\ context = 0
  /\ sitemap = <<>>
  /\ renderSt = <<>>
  /\ outputs = {}

Init ==
  \E paths \in FileSeqs :
    \E ex \in [DOMAIN paths -> BOOLEAN] :
      Start([i \in DOMAIN paths |-> [path |-> paths[i], navExclude |-> ex[i]]])

\* A docs directory with more files than pAll runs at once.
WideN == 8

WidePool ==
  << [path |-> <<"index", ".md">>, navExclude |-> FALSE],
     [path |-> <<"a", "/", "b", ".md">>, navExclude |-> FALSE],
     [path |-> <<"b", ".md">>, navExclude |-> TRUE],
     [path |-> <<"a", ".md">>, navExclude |-> FALSE],
     [path |-> <<"a", "/", "index", ".mdx">>, navExclude |-> FALSE],
     [path |-> <<"b", "/", "a", ".md">>, navExclude |-> FALSE],
     [path |-> <<"a", "/", "c", ".md">>, navExclude |-> TRUE],
     [path |-> <<"c", ".md">>, navExclude |-> FALSE],
     [path |-> <<"c", "/", "index", ".md">>, navExclude |-> FALSE] >>

InitWide == Start(SubSeq(WidePool, 1, Min(WideN, Len(WidePool))))

\* const allInfo = await pAll(files.map(...), {concurrency: 6}): the tasks start.
StartLoad ==
  /\ pc = "start"
  /\ loadSt' = PAllStart(LoadTasks(files), "running")
  /\ pc' = Await(PAllSettled(loadSt'), "load", "init")
  /\ UNCHANGED <<files, allInfo, dataHeap, navTree, index, partIndex, context,
                 sitemap, renderSt, outputs>>

\* Faulty variant: the task pushes its record on a shared array when it completes.
Collect_Push(results, i, v) ==
  LET k == 1 + Cardinality({j \in DOMAIN results : results[j].name # <<>>})
  IN [results EXCEPT ![k] = v]

\* const allInfo = await pAll(...): a task hands its record to pAll by
\* returning it, and allInfo is the array pAll resolves to.
Collect(results, i, v) == PAllStore(results, i, v)

\* A load task returns.
LoadComplete(i) ==
  /\ pc = "load"
  /\ i \in DOMAIN loadSt
  /\ loadSt[i] = "running"
  /\ dataHeap' = (i :> LoadData(i)) @@ dataHeap
  /\ allInfo' = Collect(allInfo, i, LoadResult(i))
  /\ loadSt' = PAllResume([loadSt EXCEPT ![i] = "done"], "running")
  /\ pc' = Await(PAllSettled(loadSt'), "load", "init")
  /\ UNCHANGED <<files, navTree, index, partIndex, context, sitemap, renderSt,
                 outputs>>

\* A load task throws (import() or runSync fails).
LoadFail(i) ==
  /\ pc = "load"
  /\ i \in DOMAIN loadSt
  /\ loadSt[i] = "running"
  /\ loadSt' = [loadSt EXCEPT ![i] = "failed"]
  /\ pc' = Await(PAllSettled(loadSt'), "load", "init")
  /\ UNCHANGED <<files, allInfo, dataHeap, navTree, index, partIndex, context,
                 sitemap, renderSt, outputs>>

----------------------------------------------------------------------------
\* The navigation tree.

Root == 1

\* {name, data: {}, children: []}
NewNode(name) == [name |-> name, data |-> 0, children |-> <<>>]

\* Faulty variant: find never matches.
Find_None(children, name) == 0

\* context.children.find((d) => d.name === name); 0 when there is none
Find(children, name) ==
  IF \E k \in 1..Len(children) : navTree[children[k]].name = name
  THEN children[CHOOSE k \in 1..Len(children) :
                  /\ navTree[children[k]].name = name
                  /\ \A j \in 1..(k - 1) : navTree[children[j]].name # name]
  ELSE 0

\* Faulty variant: unshift instead of push.
Push_Front(children, item) == <<item>> \o children

\* context.children.push(contextItem)
Push(children, item) == Append(children, item)

\* Faulty variant: navExclude is not honoured.
Skipped_Never(d) == FALSE

\* if (data.navExclude) continue
Skipped(d) == dataHeap[d.data].navExclude

\* const navTree = {name: '/', data: {}, children: []}; let index = -1
NavInit ==
  /\ pc = "init"
  /\ navTree' = <<NewNode(<<"/">>)>>
  /\ index' = -1
  /\ pc' = "fold"
  /\ UNCHANGED <<files, loadSt, allInfo, dataHeap, partIndex, context, sitemap,
                 renderSt, outputs>>

\* while (++index < allInfo.length) { ...; if (data.navExclude) continue
FoldNext ==
  /\ pc = "fold"
  /\ index' = index + 1
  /\ IF index' < Len(allInfo)
     THEN /\ partIndex' = 0
          /\ context' = Root
          /\ pc' = IF Skipped(allInfo[index' + 1]) THEN "fold" ELSE "walk"
     ELSE /\ pc' = "sitemap"
          /\ UNCHANGED <<partIndex, context>>
  /\ UNCHANGED <<files, loadSt, allInfo, dataHeap, navTree, sitemap, renderSt,
                 outputs>>

\* while (++partIndex < parts.length) { find or create the child; descend }
FoldDescend ==
  /\ pc = "walk"
  /\ LET parts == Parts(allInfo[index + 1].name)
         name == PrefixName(parts, partIndex + 1)
         found == Find(navTree[context].children, name)
     IN /\ partIndex + 1 < Len(parts)
        /\ partIndex' = partIndex + 1
        /\ IF found = 0
           THEN /\ navTree' = Append(
                     [navTree EXCEPT ![context].children =
                                        Push(@, Len(navTree) + 1)],
                     NewNode(name))
                /\ context' = Len(navTree) + 1
           ELSE /\ context' = found
                /\ UNCHANGED navTree
  /\ UNCHANGED <<files, pc, loadSt, allInfo, dataHeap, index, sitemap, renderSt,
                 outputs>>

\* Faulty variant: data is attached only to a node that has none yet.
SetData_KeepFirst(node, d) == IF node.data = 0 THEN [node EXCEPT !.data = d] ELSE node

\* context.data = data
SetData(node, d) == [node EXCEPT !.data = d]

\* The inner loop ends; context.data = data
FoldAttach ==
  /\ pc = "walk"
  /\ ~ (partIndex + 1 < Len(Parts(allInfo[index + 1].name)))
  /\ partIndex' = partIndex + 1
  /\ navTree' = [navTree EXCEPT ![context] = SetData(@, allInfo[index + 1].data)]
  /\ pc' = "fold"
  /\ UNCHANGED <<files, loadSt, allInfo, dataHeap, index, context, sitemap,
                 renderSt, outputs>>

----------------------------------------------------------------------------
\* Sitemap and rendering.

\* Faulty variant: entries of excluded documents are left out.
SitemapEntries_Nav(info) ==
  LET keep == {k \in 1..Len(info) : ~ dataHeap[info[k].data].navExclude}
  IN [k \in keep |-> [url |-> SiteUrl(info[k].name), lang |-> "en"]]

\* allInfo.map((d) => ({url: new URL(d.name, config.site).href, ..., lang: 'en'}))
SitemapEntries(info) ==
  [k \in 1..Len(info) |-> [url |-> SiteUrl(info[k].name), lang |-> "en"]]

\* allInfo.map((d) => async () => {...}): one task per entry
RenderTasks(info) == 1..Len(info)

\* await fs.writeFile(new URL('sitemap.xml', config.output), ...); index = -1;
\* pAll(allInfo.map(...), {concurrency: 6}): the render tasks start.
WriteSitemap ==
  /\ pc = "sitemap"
  /\ sitemap' = SitemapEntries(allInfo)
  /\ outputs' = outputs \cup {SitemapUrl}
  /\ index' = -1
  /\ renderSt' = PAllStart(RenderTasks(allInfo), "write")
  /\ pc' = Await(PAllSettled(renderSt'), "render", "done")
  /\ UNCHANGED <<files, loadSt, allInfo, dataHeap, navTree, partIndex, context>>

\* fs.writeFile of the sitemap fails.
SitemapFail ==
  /\ pc = "sitemap"
  /\ pc' = "aborted"
  /\ UNCHANGED <<files, loadSt, allInfo, dataHeap, navTree, index, partIndex,
                 context, sitemap, renderSt, outputs>>

\* data.meta.origin = canonical.origin; data.meta.pathname = canonical.pathname
SetCanonical(obj, name) ==
  [obj EXCEPT !.meta.origin = SiteOrigin, !.meta.pathname = name]

\* fs.mkdir and fs.writeFile(jsonUrl, ...) have returned: index.json is
\* written; renderToString(element) runs with navTree as a prop; data.meta
\* gets origin and pathname; unified()...process() starts.
RenderPage(i) ==
  /\ pc = "render"
  /\ i \in DOMAIN renderSt
  /\ renderSt[i] = "write"
  /\ outputs' = outputs \cup {allInfo[i].jsonUrl}
  /\ dataHeap' = [dataHeap EXCEPT ![allInfo[i].data] = SetCanonical(@, allInfo[i].name)]
  /\ renderSt' = [renderSt EXCEPT ![i] = "process"]
  /\ UNCHANGED <<files, pc, loadSt, allInfo, navTree, index, partIndex, context,
                 sitemap>>

\* process() returns; index.html is written; the task returns.
RenderHtml(i) ==
  /\ pc = "render"
  /\ i \in DOMAIN renderSt
  /\ renderSt[i] = "process"
  /\ outputs' = outputs \cup {HtmlUrl(allInfo[i].jsonUrl)}
  /\ renderSt' = PAllResume([renderSt EXCEPT ![i] = "done"], "write")
  /\ pc' = Await(PAllSettled(renderSt'), "render", "done")
  /\ UNCHANGED <<files, loadSt, allInfo, dataHeap, navTree, index, partIndex,
                 context, sitemap>>

\* A render task throws at one of its awaits.
RenderFail(i) ==
  /\ pc = "render"
  /\ i \in DOMAIN renderSt
  /\ renderSt[i] \in {"write", "process"}
  /\ renderSt' = [renderSt EXCEPT ![i] = "failed"]
  /\ pc' = Await(PAllSettled(renderSt'), "render", "done")
  /\ UNCHANGED <<files, loadSt, allInfo, dataHeap, navTree, index, partIndex,
                 context, sitemap, outputs>>

Next ==
  \/ StartLoad
  \/ \E i \in 1..N : LoadComplete(i)
  \/ \E i \in 1..N : LoadFail(i)
  \/ NavInit
  \/ FoldNext
  \/ FoldDescend
  \/ FoldAttach
  \/ WriteSitemap
  \/ SitemapFail
  \/ \E i \in 1..N : RenderPage(i)
  \/ \E i \in 1..N : RenderHtml(i)
  \/ \E i \in 1..N : RenderFail(i)

Spec == Init /\ [][Next]_vars

SpecWide == InitWide /\ [][Next]_vars

----------------------------------------------------------------------------
\* Vocabulary of the properties.

NodeIds == 1..Len(navTree)

\* The tree exists (line 115 has run).
TreeBuilt == navTree # <<>>

\* The fold has finished: the loop of lines 118-139 was left.
Finished == pc \in {"sitemap", "render", "done"} \/ (pc = "aborted" /\ TreeBuilt)

IsPrefix(p, s) == Len(p) <= Len(s) /\ SubSeq(s, 1, Len(p)) = p

Docs == 1..Len(allInfo)

Excluded(i) == dataHeap[allInfo[i].data].navExclude

NonExcluded == {i \in Docs : ~ Excluded(i)}

\* The nodes named nm.
NodesNamed(nm) == {n \in NodeIds : navTree[n].name = nm}

\* The last non-excluded document at path nm.
LastAt(nm) ==
  CHOOSE i \in NonExcluded :
    /\ allInfo[i].name = nm
    /\ \A j \in NonExcluded : allInfo[j].name = nm => j <= i

\* The first non-excluded document whose path has nm as a prefix, 0 if none.
FirstReach(nm) ==
  IF \E i \in NonExcluded : IsPrefix(nm, allInfo[i].name)
  THEN CHOOSE i \in NonExcluded :
         /\ IsPrefix(nm, allInfo[i].name)
         /\ \A j \in NonExcluded : IsPrefix(nm, allInfo[j].name) => i <= j
  ELSE 0

\* The slash-terminated prefixes of a path.
SlashPrefixes(nm) == {SubSeq(nm, 1, k) : k \in {k \in 1..Len(nm) : nm[k] = "/"}}

\* c is p extended by one non-empty segment and a trailing slash.
OneDeeper(p, c) ==
  /\ IsPrefix(p, c)
  /\ Len(c) >= Len(p) + 2
  /\ c[Len(c)] = "/"
  /\ \A k \in (Len(p) + 1)..(Len(c) - 1) : c[k] # "/"

\* The tree with every data reference replaced by the object it refers to.
TreeContents ==
  [n \in NodeIds |->
     [name |-> navTree[n].name,
      children |-> navTree[n].children,
      data |-> IF navTree[n].data = 0 THEN <<>> ELSE dataHeap[navTree[n].data]]]

----------------------------------------------------------------------------
\* C1 (as stated): after the fold, every non-excluded document has a node
\* whose name is the document's path and whose data is that document's own
\* metadata bag.
C1_OwnBag ==
  Finished =>
    \A i \in NonExcluded :
      \E n \in NodeIds :
        navTree[n].name = allInfo[i].name /\ navTree[n].data = allInfo[i].data

\* C1 (amended): after the fold, every non-excluded document has a node whose
\* name is the document's path, and the node's data is the metadata bag of
\* the last non-excluded document of the input with that path (the
\* document's own bag when no later one shares its path).
C1_LastBag ==
  Finished =>
    \A i \in NonExcluded :
      \E n \in NodeIds :
        /\ navTree[n].name = allInfo[i].name
        /\ navTree[n].data = allInfo[LastAt(allInfo[i].name)].data

C1_Witness ==
  /\ Finished
  /\ \E i, j \in NonExcluded : i < j /\ allInfo[i].name = allInfo[j].name
  /\ \E i \in Docs : Excluded(i)

\* C2 (as stated): after the fold, no node is named like the path of an
\* excluded document.
C2_NoNode ==
  Finished => \A i \in Docs : Excluded(i) => NodesNamed(allInfo[i].name) = {}

\* C2 (amended): after the fold, no node is named like the path of an
\* excluded document, unless that path is "/" (the root) or is the path, or a
\* prefix of the path, of a non-excluded document.
C2_NoNodeUnlessShared ==
  Finished =>
    \A i \in Docs :
      (Excluded(i) /\ NodesNamed(allInfo[i].name) # {}) =>
        \/ allInfo[i].name = <<"/">>
        \/ \E j \in NonExcluded : IsPrefix(allInfo[i].name, allInfo[j].name)

C2_Witness ==
  /\ Finished
  /\ NonExcluded # {}
  /\ \E i \in Docs : Excluded(i) /\ NodesNamed(allInfo[i].name) = {}
  /\ \E i \in Docs :
       Excluded(i) /\ allInfo[i].name # <<"/">> /\ NodesNamed(allInfo[i].name) # {}

\* C3, state part: at every node the children are in the order in which their
\* paths were first reached by a non-excluded document of the input.
C3_OrderInv ==
  TreeBuilt =>
    \A n \in NodeIds :
      LET ch == navTree[n].children
      IN \A p, q \in 1..Len(ch) :
           /\ FirstReach(navTree[ch[p]].name) # 0
           /\ (p < q) <=> (FirstReach(navTree[ch[p]].name)
                             < FirstReach(navTree[ch[q]].name))

\* C3, step part: a step only appends to a children list.
C3_AppendOnly ==
  TreeBuilt => \A n \in NodeIds : IsPrefix(navTree[n].children, navTree'[n].children)

\* C3: sibling order is first-reached order at every node, and no step
\* reorders, sorts or removes children.
C3_SiblingOrder == [](C3_OrderInv) /\ [][C3_AppendOnly]_vars

C3_Witness ==
  /\ Finished
  /\ Len(navTree[Root].children) = 2
  /\ navTree[navTree[Root].children[1]].name = <<"/", "b", "/">>
  /\ navTree[navTree[Root].children[2]].name = <<"/", "a", "/">>

\* C4: when several non-excluded documents share a path, the finished tree
\* has exactly one node for it and its data is the bag of the last of them.
C4_LastWriteWins ==
  Finished =>
    \A i, j \in NonExcluded :
      (i < j /\ allInfo[i].name = allInfo[j].name) =>
        /\ Cardinality(NodesNamed(allInfo[i].name)) = 1
        /\ \A n \in NodesNamed(allInfo[i].name) :
             navTree[n].data = allInfo[LastAt(allInfo[i].name)].data

C4_Witness ==
  /\ Finished
  /\ \E i, j \in NonExcluded :
       /\ i < j
       /\ allInfo[i].name = allInfo[j].name
       /\ \E n \in NodeIds : navTree[n].data = allInfo[j].data
       /\ \A n \in NodeIds : navTree[n].data # allInfo[i].data


----------------------------------------------------------------------------
\* The tree as a function of the file list alone.

FileName(i) == NameOf(Href(files[i].path))

FileDocs == {i \in 1..N : ~ files[i].navExclude}

\* The prefix of path full that is one segment deeper than nm.
ChildPrefix(nm, full) ==
  SubSeq(full, 1, CHOOSE k \in (Len(nm) + 1)..Len(full) :
                    full[k] = "/" /\ \A j \in (Len(nm) + 1)..(k - 1) : full[j] # "/")

\* The children of nm that the files call for, in first-seen order.
Kids(nm) ==
  LET below == {i \in FileDocs : IsPrefix(nm, FileName(i)) /\ FileName(i) # nm}
      first == {i \in below :
                  \A j \in below :
                    j < i => ChildPrefix(nm, FileName(j)) # ChildPrefix(nm, FileName(i))}
  IN [k \in 1..Cardinality(first) |->
        ChildPrefix(nm, FileName(CHOOSE i \in first :
                                   Cardinality({j \in first : j < i}) = k - 1))]

RECURSIVE ExpectedNode(_)
ExpectedNode(nm) ==
  LET at == {i \in FileDocs : FileName(i) = nm}
      kids == Kids(nm)
  IN [name |-> nm,
      data |-> IF at = {} THEN 0 ELSE CHOOSE i \in at : \A j \in at : j <= i,
      children |-> [k \in 1..Len(kids) |-> ExpectedNode(kids[k])]]

RECURSIVE TreeValue(_)
\* Node n with its children nested in it.
TreeValue(n) ==
  [name |-> navTree[n].name,
   data |-> navTree[n].data,
   children |-> [k \in 1..Len(navTree[n].children) |->
                   TreeValue(navTree[n].children[k])]]

\* C5: whatever the order in which the load tasks complete, the result of
\* the task for file i is at position i of allInfo, and the finished tree
\* (shape, sibling order, data of every node) is the one the file sequence
\* alone determines.
C5_OrderIndependent ==
  /\ \A i \in DOMAIN loadSt :
       loadSt[i] = "done" =>
         /\ allInfo[i].name = FileName(i)
         /\ allInfo[i].data \in DOMAIN dataHeap
         /\ dataHeap[allInfo[i].data].navExclude = files[i].navExclude
  /\ \A i \in 1..N :
       allInfo[i] # NoResult => (i \in DOMAIN loadSt /\ loadSt[i] = "done")
  /\ Finished => TreeValue(Root) = ExpectedNode(<<"/">>)

\* A later task has completed, and its result is stored, while an earlier
\* one is still running.
C5_Witness ==
  \E i, j \in DOMAIN loadSt :
    /\ i < j
    /\ loadSt[i] = "running"
    /\ loadSt[j] = "done"
    /\ allInfo[i] = NoResult
    /\ allInfo[j].name = FileName(j)

\* C6, state part: after a failed load task the program has ended, with no
\* tree, no sitemap and no render task; after a failed render task the
\* program has ended.
C6_AbortInv ==
  /\ (\E i \in DOMAIN loadSt : loadSt[i] = "failed") =>
       /\ pc = "aborted"
       /\ ~ TreeBuilt
       /\ sitemap = <<>>
       /\ SitemapUrl \notin outputs
       /\ renderSt = <<>>
  /\ (\E i \in DOMAIN renderSt : renderSt[i] = "failed") => pc = "aborted"

\* C6, step part: once a task of a fan-out has failed no task of it is
\* started, and a task that has ended (done or failed) never runs again.
C6_NoStartNoRetry ==
  /\ (\E i \in DOMAIN loadSt : loadSt[i] = "failed") =>
       \A j \in DOMAIN loadSt : loadSt[j] = "idle" => loadSt'[j] = "idle"
  /\ (\E i \in DOMAIN renderSt : renderSt[i] = "failed") =>
       \A j \in DOMAIN renderSt : renderSt[j] = "idle" => renderSt'[j] = "idle"
  /\ \A j \in DOMAIN loadSt :
       loadSt[j] \in {"done", "failed"} => loadSt'[j] = loadSt[j]
  /\ \A j \in DOMAIN renderSt :
       renderSt[j] \in {"done", "failed"} => renderSt'[j] = renderSt[j]
  /\ (loadSt # <<>> => DOMAIN loadSt' = DOMAIN loadSt)
  /\ (renderSt # <<>> => DOMAIN renderSt' = DOMAIN renderSt)

\* C6: fail-fast and no retry: a failed load task ends the build before the
\* tree, the sitemap and every render task; after a failed task of either
\* fan-out no task that has not started is started; no task runs twice.
C6_FailFast == [](C6_AbortInv) /\ [][C6_NoStartNoRetry]_vars

C6_Witness ==
  /\ pc = "aborted"
  /\ \E i, j, k \in DOMAIN renderSt :
       renderSt[i] = "failed" /\ renderSt[j] = "idle" /\ renderSt[k] = "done"

\* C7: the sitemap has one entry per file, in file order, excluded or not;
\* every document, excluded or not, has a render task, and when the build
\* is done its index.json and index.html are written.
C7_ExclusionNavOnly ==
  /\ SitemapUrl \in outputs =>
       sitemap = [k \in 1..N |-> [url |-> SiteUrl(FileName(k)), lang |-> "en"]]
  /\ pc \in {"render", "done"} => DOMAIN renderSt = 1..N
  /\ pc = "done" =>
       \A i \in 1..N :
         /\ renderSt[i] = "done"
         /\ JsonUrl(FileName(i)) \in outputs
         /\ HtmlUrl(JsonUrl(FileName(i))) \in outputs

C7_Witness ==
  /\ pc = "done"
  /\ \E i \in 1..N :
       /\ files[i].navExclude
       /\ NodesNamed(FileName(i)) = {}
       /\ sitemap[i].url = SiteUrl(FileName(i))
       /\ HtmlUrl(JsonUrl(FileName(i))) \in outputs
  /\ \E i \in 1..N : ~ files[i].navExclude

\* C8: once the fold has finished no step changes the name, the children or
\* the contents of the metadata bag of any node.
C8_ReadOnly == [][Finished => TreeContents' = TreeContents]_vars

\* C9: whenever the tree exists, the root is named "/", every child is named
\* like its parent plus one non-empty segment and a slash, and no two nodes
\* have the same name.
C9_PathInvariant ==
  TreeBuilt =>
    /\ navTree[Root].name = <<"/">>
    /\ \A n \in NodeIds :
         \A k \in 1..Len(navTree[n].children) :
           /\ navTree[n].children[k] \in NodeIds
           /\ OneDeeper(navTree[n].name, navTree[navTree[n].children[k]].name)
    /\ \A n, m \in NodeIds : navTree[n].name = navTree[m].name => n = m
    /\ \A n \in NodeIds \ {Root} :
         Cardinality({<<m, k>> \in NodeIds \X (1..Len(navTree)) :
                        k <= Len(navTree[m].children) /\ navTree[m].children[k] = n}) = 1

C9_Witness ==
  /\ pc = "walk"
  /\ Len(navTree) >= 4
  /\ \E n \in NodeIds : Len(navTree[n].name) = 5

\* C10: the names of the finished tree are "/" and the slash-terminated
\* prefixes of the paths of the non-excluded documents; a node that is not
\* the path of a non-excluded document has empty data, and has a child
\* unless it is the root.
C10_Placeholders ==
  Finished =>
    /\ {navTree[n].name : n \in NodeIds}
         = {<<"/">>} \cup UNION {SlashPrefixes(allInfo[i].name) : i \in NonExcluded}
    /\ \A n \in NodeIds :
         (\A i \in NonExcluded : allInfo[i].name # navTree[n].name) =>
           /\ navTree[n].data = 0
           /\ (n # Root => Len(navTree[n].children) >= 1)

C10_Witness ==
  /\ Finished
  /\ navTree[Root].data = 0
  /\ \E n \in NodeIds \ {Root} : navTree[n].data = 0 /\ Len(navTree[n].children) >= 1
  /\ \E n \in NodeIds : navTree[n].data # 0

====
